---- MODULE Spec2Model ----
(***************************************************************************)
(* Model of the `delegate` sub-commands of the safes CLI (add, list,      *)
(* remove) and of the registry client functions they call (AddDelegate,   *)
(* GetDelegates, RemoveDelegate, KeyFromFile).                            *)
(*                                                                         *)
(* One CLI invocation is a sequence of steps, one per external effect of  *)
(* the code (keystore decryption, RPC dial, chain-id lookup, clock read,  *)
(* hashing + signing, HTTP request, HTTP response).  The environment      *)
(* chooses the outcome of every effect, and the wall clock advances       *)
(* between any two steps.                                                  *)
(*                                                                         *)
(* Strings whose characters matter (addresses, decimal numbers, labels)   *)
(* are sequences of one-character strings.                                 *)
(***************************************************************************)
EXTENDS Integers, Sequences, FiniteSets, TLC

VARIABLES
    pc,          \* position of the running invocation
    inv,         \* the flag values of the running invocation
    clock,       \* wall clock, unix seconds
    key,         \* decrypted keystore key (RunE local `key`)
    keyErr,      \* error returned by KeyFromFile (RunE local `keyErr`)
    chainID,     \* chain id returned by the RPC node (RunE local `chainID`)
    safeAPIURL,  \* package variable safeAPIURL
    totp,        \* AddDelegate / RemoveDelegate local `totp`
    typedData,   \* AddDelegate / RemoveDelegate local `typedData`
    signature,   \* AddDelegate / RemoveDelegate local `signature`
    request,     \* the HTTP request handed to the transport
    response,    \* what the transport gave back
    callErr,     \* error returned by AddDelegate / GetDelegates / RemoveDelegate
    delegates,   \* slice returned by GetDelegates
    result,      \* error returned by RunE / PreRunE (NilErr: success)
    events,      \* external effects of the running invocation, in order
    nowReads     \* values time.Now().Unix() returned in the running invocation

vars == <<pc, inv, clock, key, keyErr, chainID, safeAPIURL, totp, typedData,
          signature, request, response, callErr, delegates, result, events,
          nowReads>>

---------------------------------------------------------------------------
(* Bounds of the model *)

\* An address has AddrBytes bytes (20 in go-ethereum; scaled down).
AddrBytes == 1
\* The clock starts one second before hour window StartWindow begins.
StartWindow == 12
\* The clock advances at most MaxTicks seconds.
MaxTicks == 2

\* Seconds per TOTP window: time.Now().Unix() / 3600.
SecondsPerWindow == 3600
\* signature[64] += 27
RecoveryOffset == 27

---------------------------------------------------------------------------
(* Characters, hex and decimal conversions *)

DecDigits == <<"0", "1", "2", "3", "4", "5", "6", "7", "8", "9">>
LowerHex == DecDigits \o <<"a", "b", "c", "d", "e", "f">>
UpperHex == DecDigits \o <<"A", "B", "C", "D", "E", "F">>

Range(s) == {s[i] : i \in DOMAIN s}

IsHexChar(c) == c \in Range(LowerHex) \cup Range(UpperHex)

\* value of one hex character, either case
NibbleOf(c) ==
    IF c \in Range(LowerHex)
    THEN (CHOOSE i \in DOMAIN LowerHex : LowerHex[i] = c) - 1
    ELSE (CHOOSE i \in DOMAIN UpperHex : UpperHex[i] = c) - 1

\* fmt.Sprintf("%d", n) and (*big.Int).String() for n >= 0
RECURSIVE FormatInt(_)
FormatInt(n) ==
    IF n < 10 THEN <<DecDigits[n + 1]>>
    ELSE FormatInt(n \div 10) \o <<DecDigits[(n % 10) + 1]>>

\* decimal string to integer, as the typed-data encoder parses a uint256
\* given as a string
RECURSIVE ParseBig256(_)
ParseBig256(s) ==
    IF s = <<>> THEN 0
    ELSE 10 * ParseBig256(SubSeq(s, 1, Len(s) - 1)) + NibbleOf(s[Len(s)])

has0xPrefix(s) == Len(s) >= 2 /\ s[1] = "0" /\ s[2] \in {"x", "X"}

StripPrefix(s) == IF has0xPrefix(s) THEN SubSeq(s, 3, Len(s)) ELSE s

\* common.IsHexAddress
IsHexAddress(s) ==
    LET h == StripPrefix(s)
    IN  /\ Len(h) = 2 * AddrBytes
        /\ \A i \in DOMAIN h : IsHexChar(h[i])

\* common.HexToAddress, for the strings IsHexAddress accepts: the address
\* as its sequence of nibbles
HexToAddress(s) ==
    LET h == StripPrefix(s) IN [i \in DOMAIN h |-> NibbleOf(h[i])]

RECURSIVE SumSeq(_)
SumSeq(s) == IF s = <<>> THEN 0 ELSE s[1] + SumSeq(Tail(s))

\* Stand-in for nibble i of keccak256(lower-case hex of the address), which
\* decides the case of character i of the checksum form: a fixed function
\* of the address and the position.
ChecksumHashNibble(addr, i) == (SumSeq(addr) * i + i) % 16

\* common.Address.Hex: "0x" + hex digits, a letter in upper case iff the
\* hash nibble at its position exceeds 7
Hex(addr) ==
    <<"0", "x">> \o
    [i \in DOMAIN addr |->
        IF addr[i] > 9 /\ ChecksumHashNibble(addr, i) > 7
        THEN UpperHex[addr[i] + 1]
        ELSE LowerHex[addr[i] + 1]]

---------------------------------------------------------------------------
(* Errors: the chain of format strings from the outermost wrapper inwards, *)
(* and the status code and body formatted into the message, if any.       *)

NilErr == [chain |-> <<>>, hasCode |-> FALSE, code |-> 0,
           hasBody |-> FALSE, body |-> ""]

NewErr(text) == [NilErr EXCEPT !.chain = <<text>>]

\* fmt.Errorf(format + "%v" / "%w", e)
Wrap(format, e) == [e EXCEPT !.chain = <<format>> \o @]

---------------------------------------------------------------------------
(* EIP-712 typed data, its hash and the signature.  keccak256 is taken    *)
(* as collision free: a hash is the structure that was hashed.             *)

\* a string value and a *big.Int value of a typed-data map
Str(s) == [kind |-> "string", s |-> s, n |-> 0]
Big(n) == [kind |-> "big", s |-> <<>>, n |-> n]

\* apitypes.TypedDataDomain.Map
DomainMap(d) == [name |-> Str(<<d.Name>>), version |-> Str(<<d.Version>>),
                 chainId |-> Big(d.ChainId)]

\* the type string "Delegate(address delegateAddress,uint256 totp)":
\* the name and the fields in declaration order
EncodeType(primaryType, types) ==
    [name |-> primaryType, fields |-> types[primaryType]]

\* the 32-byte encoding of one field value
EncodeValue(type, v) ==
    CASE type = "address" ->
            [type |-> type, bytes |-> HexToAddress(v.s), int |-> 0, str |-> <<>>]
      [] type = "uint256" ->
            [type |-> type, bytes |-> <<>>,
             int |-> IF v.kind = "big" THEN v.n ELSE ParseBig256(v.s),
             str |-> <<>>]
      [] OTHER ->
            [type |-> type, bytes |-> <<>>, int |-> 0, str |-> v.s]

\* hashStruct(s) = keccak256(typeHash || encodeData(s))
HashStruct(primaryType, data, types) ==
    [typeHash |-> EncodeType(primaryType, types),
     enc |-> [i \in DOMAIN types[primaryType] |->
                EncodeValue(types[primaryType][i].Type,
                            data[types[primaryType][i].Name])]]

\* apitypes.TypedDataAndHash: keccak256("\x19\x01" || domainSeparator || hashStruct(message))
TypedDataAndHash(td) ==
    [prefix |-> <<25, 1>>,
     domainSeparator |-> HashStruct("EIP712Domain", DomainMap(td.Domain), td.Types),
     messageHash |-> HashStruct(td.PrimaryType, td.Message, td.Types)]

\* crypto.Sign(hash, key.PrivateKey) with recovery id v, then signature[64] += 27
\* and "0x" + common.Bytes2Hex(signature)
SenderSignature(hash, privateKey, v) ==
    [rs |-> [hash |-> hash, key |-> privateKey], v |-> v + RecoveryOffset]

\* the typedData literal of AddDelegate
AddDelegateTypedData(safeAddress, delegateAddress, label, chainId, k, t) ==
    LET checksumDelegate == Hex(HexToAddress(delegateAddress))
    IN  [Types |->
            [EIP712Domain |-> <<[Name |-> "name", Type |-> "string"],
                                [Name |-> "version", Type |-> "string"],
                                [Name |-> "chainId", Type |-> "uint256"]>>,
             Delegate |-> <<[Name |-> "delegateAddress", Type |-> "address"],
                            [Name |-> "totp", Type |-> "uint256"]>>],
         PrimaryType |-> "Delegate",
         Domain |-> [Name |-> "Safe Transaction Service", Version |-> "1.0",
                     ChainId |-> chainId],
         Message |-> [delegateAddress |-> Str(checksumDelegate),
                      totp |-> Str(FormatInt(t))]]

\* RemoveDelegate that signs the safe address in place of the delegate
RemoveDelegateTypedDataSignsSafe(safeAddress, delegateAddress, chainId, k, t) ==
    LET checksumSafe == Hex(HexToAddress(safeAddress))
    IN  [Types |->
            [EIP712Domain |-> <<[Name |-> "name", Type |-> "string"],
                                [Name |-> "version", Type |-> "string"],
                                [Name |-> "chainId", Type |-> "uint256"]>>,
             Delegate |-> <<[Name |-> "delegateAddress", Type |-> "address"],
                            [Name |-> "totp", Type |-> "uint256"]>>],
         PrimaryType |-> "Delegate",
         Domain |-> [Name |-> "Safe Transaction Service", Version |-> "1.0",
                     ChainId |-> chainId],
         Message |-> [delegateAddress |-> Str(checksumSafe),
                      totp |-> Str(FormatInt(t))]]

\* the typedData literal of RemoveDelegate
RemoveDelegateTypedData(safeAddress, delegateAddress, chainId, k, t) ==
    LET checksumDelegate == Hex(HexToAddress(delegateAddress))
    IN  [Types |->
            [EIP712Domain |-> <<[Name |-> "name", Type |-> "string"],
                                [Name |-> "version", Type |-> "string"],
                                [Name |-> "chainId", Type |-> "uint256"]>>,
             Delegate |-> <<[Name |-> "delegateAddress", Type |-> "address"],
                            [Name |-> "totp", Type |-> "uint256"]>>],
         PrimaryType |-> "Delegate",
         Domain |-> [Name |-> "Safe Transaction Service", Version |-> "1.0",
                     ChainId |-> chainId],
         Message |-> [delegateAddress |-> Str(checksumDelegate),
                      totp |-> Str(FormatInt(t))]]

---------------------------------------------------------------------------
(* Inputs and environment outcomes *)

\* the leading characters of an address, filled with "0" to the full length
Stretch(chars) == chars \o [i \in 1 .. (2 * AddrBytes - Len(chars)) |-> "0"]

AddrLowerNoPrefix == Stretch(<<"a", "b">>)
AddrUpperPrefixed == <<"0", "x">> \o Stretch(<<"A", "B">>)
AddrOther == <<"0", "x">> \o Stretch(<<"c", "1">>)
AddrNotHex == Stretch(<<"g", "1">>)
AddrShort == <<"a">>

SafeInputs == {AddrLowerNoPrefix, AddrUpperPrefixed, AddrNotHex}
DelegateInputs == {AddrLowerNoPrefix, AddrOther, AddrShort}
LabelInputs == {<<>>, <<"l">>}
KeyfileInputs == {"", "keyfile.json"}
PasswordInputs == {"", "pw"}
LimitInputs == {-1, 0, 5}
OffsetInputs == {-1, 0, 12}

\* --safe-api: not given, or given
EmptyURL == [custom |-> FALSE, chain |-> 0, slash |-> FALSE]
CustomURL == [custom |-> TRUE, chain |-> 0, slash |-> TRUE]
\* fmt.Sprintf("https://safe-client.safe.global/v2/chains/%d/delegates/", chainID)
DefaultURL(chain, slash) == [custom |-> FALSE, chain |-> chain, slash |-> slash]
URLInputs == {EmptyURL, CustomURL}

\* keys a keystore file can decrypt to
NoKey == [Address |-> <<>>, PrivateKey |-> ""]
Keys == {[Address |-> HexToAddress(Stretch(<<"d", "e">>)), PrivateKey |-> "k1"],
         [Address |-> HexToAddress(Stretch(<<"4", "f">>)), PrivateKey |-> "k2"]}

ChainIDs == {1, 137}

\* HTTP statuses and bodies the registry can answer with
Statuses == {200, 201, 204, 400, 500}
BodyNothing == ""
BodyBadSignature == "{\"detail\":\"bad signature\"}"
BodyEmptyPage == "{\"count\":0,\"next\":null,\"previous\":null,\"results\":[]}"
BodyOnePage == "{\"count\":3,\"next\":\"...offset=1\",\"previous\":null,\"results\":[d1]}"
BodyTwoPage == "{\"count\":2,\"next\":null,\"previous\":null,\"results\":[d2,d1]}"
Bodies == {BodyNothing, BodyBadSignature, BodyEmptyPage, BodyOnePage, BodyTwoPage}

\* DelegateResponse values of the pages above
D1 == [Safe |-> "s", Delegate |-> "d1", Delegator |-> "g", Label |-> "one"]
D2 == [Safe |-> "s", Delegate |-> "d2", Delegator |-> "g", Label |-> "two"]

NoPage == [Count |-> 0, Next |-> "", Previous |-> "", Results |-> <<>>]

\* json.Unmarshal(body, &response) on the bodies above: the error, and the
\* decoded struct (fields missing from the JSON keep their zero value)
Unmarshal(body) ==
    CASE body = BodyNothing ->
            [err |-> NewErr("unexpected end of JSON input"), value |-> NoPage]
      [] body = BodyBadSignature -> [err |-> NilErr, value |-> NoPage]
      [] body = BodyEmptyPage -> [err |-> NilErr, value |-> NoPage]
      [] body = BodyOnePage ->
            [err |-> NilErr,
             value |-> [Count |-> 3, Next |-> "...offset=1", Previous |-> "",
                        Results |-> <<D1>>]]
      [] body = BodyTwoPage ->
            [err |-> NilErr,
             value |-> [Count |-> 2, Next |-> "", Previous |-> "",
                        Results |-> <<D2, D1>>]]

NoResponse == [transportErr |-> FALSE, status |-> 0, body |-> ""]
Responses ==
    {[transportErr |-> TRUE, status |-> 0, body |-> ""]} \cup
    [transportErr : {FALSE}, status : Statuses, body : Bodies]

---------------------------------------------------------------------------
(* The registry client: what each function computes *)

\* the JSON payload of AddDelegate
AddDelegatePayload(safeAddress, delegateAddress, label, k, sig) ==
    [safe |-> Hex(HexToAddress(safeAddress)),
     delegate |-> Hex(HexToAddress(delegateAddress)),
     delegator |-> Hex(k.Address),
     signature |-> sig,
     label |-> label]

\* the JSON payload of RemoveDelegate
RemoveDelegatePayload(safeAddress, delegateAddress, k, sig) ==
    [safe |-> Hex(HexToAddress(safeAddress)),
     delegator |-> Hex(k.Address),
     signature |-> sig]

\* AddDelegate that also takes 204 No Content for success
AddDelegateResultAccepts204(r) ==
    IF r.transportErr THEN Wrap("error sending request: %w", NewErr("transport"))
    ELSE IF r.status # 201 /\ r.status # 200 /\ r.status # 204
         THEN [chain |-> <<"unexpected status code: %d, body: %s">>,
               hasCode |-> TRUE, code |-> r.status,
               hasBody |-> TRUE, body |-> r.body]
         ELSE NilErr

\* what AddDelegate returns once client.Do has returned
AddDelegateResult(r) ==
    IF r.transportErr THEN Wrap("error sending request: %w", NewErr("transport"))
    ELSE IF r.status # 201 /\ r.status # 200
         THEN [chain |-> <<"unexpected status code: %d, body: %s">>,
               hasCode |-> TRUE, code |-> r.status,
               hasBody |-> TRUE, body |-> r.body]
         ELSE NilErr

\* RemoveDelegate that also takes 201 Created for success
RemoveDelegateResultAccepts201(r) ==
    IF r.transportErr THEN Wrap("error sending request: %w", NewErr("transport"))
    ELSE IF r.status # 204 /\ r.status # 200 /\ r.status # 201
         THEN [chain |-> <<"unexpected status code: %d, body: %s">>,
               hasCode |-> TRUE, code |-> r.status,
               hasBody |-> TRUE, body |-> r.body]
         ELSE NilErr

\* what RemoveDelegate returns once client.Do has returned
RemoveDelegateResult(r) ==
    IF r.transportErr THEN Wrap("error sending request: %w", NewErr("transport"))
    ELSE IF r.status # 204 /\ r.status # 200
         THEN [chain |-> <<"unexpected status code: %d, body: %s">>,
               hasCode |-> TRUE, code |-> r.status,
               hasBody |-> TRUE, body |-> r.body]
         ELSE NilErr

\* url.Values: parameter name -> values, in the order added
EmptyValues == [k \in {} |-> <<>>]

ValuesAdd(vs, k, v) ==
    [x \in DOMAIN vs \cup {k} |->
        IF x \in DOMAIN vs
        THEN (IF x = k THEN Append(vs[x], v) ELSE vs[x])
        ELSE <<v>>]

\* url.Values.Encode: "k=v" pairs sorted by key
SortedKeys == <<"delegate", "delegator", "label", "limit", "offset", "safe">>

RECURSIVE EncodeFrom(_, _)
EncodeFrom(vs, i) ==
    IF i > Len(SortedKeys) THEN <<>>
    ELSE LET k == SortedKeys[i]
         IN  (IF k \in DOMAIN vs
              THEN [j \in DOMAIN vs[k] |-> [key |-> k, value |-> vs[k][j]]]
              ELSE <<>>) \o EncodeFrom(vs, i + 1)

ValuesEncode(vs) == EncodeFrom(vs, 1)

\* GetDelegates that sends the delegate filter even when it is empty
GetDelegatesParamsSendsEmptyDelegate(safe, delegate, delegator, label, limit, offset) ==
    LET p1 == ValuesAdd(EmptyValues, "safe", safe)
        p2 == ValuesAdd(p1, "delegate", delegate)
        p3 == IF delegator # <<>> THEN ValuesAdd(p2, "delegator", delegator) ELSE p2
        p4 == IF label # <<>> THEN ValuesAdd(p3, "label", label) ELSE p3
        p5 == IF limit > 0 THEN ValuesAdd(p4, "limit", FormatInt(limit)) ELSE p4
        p6 == IF offset > 0 THEN ValuesAdd(p5, "offset", FormatInt(offset)) ELSE p5
    IN  p6

\* the query parameters GetDelegates builds
GetDelegatesParams(safe, delegate, delegator, label, limit, offset) ==
    LET p1 == ValuesAdd(EmptyValues, "safe", safe)
        p2 == IF delegate # <<>> THEN ValuesAdd(p1, "delegate", delegate) ELSE p1
        p3 == IF delegator # <<>> THEN ValuesAdd(p2, "delegator", delegator) ELSE p2
        p4 == IF label # <<>> THEN ValuesAdd(p3, "label", label) ELSE p3
        p5 == IF limit > 0 THEN ValuesAdd(p4, "limit", FormatInt(limit)) ELSE p4
        p6 == IF offset > 0 THEN ValuesAdd(p5, "offset", FormatInt(offset)) ELSE p5
    IN  p6

\* what GetDelegates returns once http.Get has returned
GetDelegatesResult(r) ==
    IF r.transportErr
    THEN [delegates |-> <<>>,
          err |-> Wrap("error sending request: %w", NewErr("transport"))]
    ELSE IF r.status # 200
    THEN [delegates |-> <<>>,
          err |-> [chain |-> <<"unexpected status code: %d">>,
                   hasCode |-> TRUE, code |-> r.status,
                   hasBody |-> FALSE, body |-> ""]]
    ELSE IF Unmarshal(r.body).err # NilErr
    THEN [delegates |-> <<>>,
          err |-> Wrap("error unmarshaling response: %w", Unmarshal(r.body).err)]
    ELSE [delegates |-> Unmarshal(r.body).value.Results, err |-> NilErr]

\* what the environment of KeyFromFile can do: the file cannot be read, the
\* password prompt fails, decryption fails, or decryption yields a key
KeystoreOutcomes ==
    [fail : {"read", "input", "decrypt"}, key : {NoKey}] \cup
    [fail : {""}, key : Keys]

KeyFromFile(keystoreFile, password, o) ==
    CASE o.fail = "read" ->
            [key |-> NoKey, err |-> NewErr("open: no such file or directory")]
      [] o.fail = "input" ->
            [key |-> NoKey, err |-> NewErr("error reading password: %s")]
      [] o.fail = "decrypt" ->
            [key |-> NoKey,
             err |-> NewErr("could not decrypt key with given password")]
      [] OTHER -> [key |-> o.key, err |-> NilErr]

---------------------------------------------------------------------------
(* The commands: what PreRunE and RunE decide *)

AddPreRunE(f) ==
    IF ~IsHexAddress(f.safe) THEN NewErr("invalid safe address: %s")
    ELSE IF ~IsHexAddress(f.delegate) THEN NewErr("invalid delegate address: %s")
    ELSE IF f.label = <<>> THEN NewErr("label is required")
    ELSE IF f.keyfile = "" THEN NewErr("--keyfile not specified")
    ELSE NilErr

ListPreRunE(f) ==
    IF ~IsHexAddress(f.safe) THEN NewErr("invalid safe address: %s") ELSE NilErr

\* PreRunE of remove that does not check the delegate address
RemovePreRunESkipsDelegate(f) ==
    IF ~IsHexAddress(f.safe) THEN NewErr("invalid safe address: %s")
    ELSE IF f.keyfile = "" THEN NewErr("--keyfile not specified")
    ELSE NilErr

RemovePreRunE(f) ==
    IF ~IsHexAddress(f.safe) THEN NewErr("invalid safe address: %s")
    ELSE IF ~IsHexAddress(f.delegate) THEN NewErr("invalid delegate address: %s")
    ELSE IF f.keyfile = "" THEN NewErr("--keyfile not specified")
    ELSE NilErr

\* RunE of add that does not return on a key error
AddAfterKeyIgnoresError(err) == "dial"

\* where RunE of add goes once KeyFromFile has returned err
AddAfterKey(err) == IF err # NilErr THEN "done" ELSE "dial"

\* where RunE of remove goes once KeyFromFile has returned err
RemoveAfterKey(err) == IF err # NilErr THEN "done" ELSE "dial"

\* what RunE of add returns once AddDelegate has returned err
AddRunEResult(err) ==
    IF err # NilErr THEN Wrap("error adding delegate: %v", err) ELSE NilErr

\* what RunE of remove returns once RemoveDelegate has returned err
RemoveRunEResult(err) ==
    IF err # NilErr THEN Wrap("error removing delegate: %v", err) ELSE NilErr

\* what RunE of list returns once GetDelegates has returned (ds, err)
ListRunEResult(ds, err) ==
    IF err # NilErr THEN Wrap("error retrieving delegates: %v", err)
    ELSE IF Len(ds) = 0 THEN NewErr("no delegates found")
    ELSE NilErr

---------------------------------------------------------------------------
(* State machine *)

NoFlags == [cmd |-> "none", safe |-> <<>>, delegate |-> <<>>, delegator |-> <<>>,
            label |-> <<>>, keyfile |-> "", password |-> "",
            limit |-> 0, offset |-> 0]
NoTypedData == [PrimaryType |-> ""]
NoSignature == [v |-> 0]
NoRequest == [method |-> ""]

StartClock == SecondsPerWindow * StartWindow - 1

Init ==
    /\ pc = "idle"
    /\ inv = NoFlags
    /\ clock = StartClock
    /\ key = NoKey
    /\ keyErr = NilErr
    /\ chainID = 0
    /\ safeAPIURL = EmptyURL
    /\ totp = 0
    /\ typedData = NoTypedData
    /\ signature = NoSignature
    /\ request = NoRequest
    /\ response = NoResponse
    /\ callErr = NilErr
    /\ delegates = <<>>
    /\ result = NilErr
    /\ events = <<>>
    /\ nowReads = <<>>

\* the process starts: flags parsed into the command's variables, nothing
\* done yet (one process runs one command)
Start(flags, url) ==
    /\ pc' = "prerun"
    /\ inv' = flags
    /\ safeAPIURL' = url
    /\ key' = NoKey
    /\ keyErr' = NilErr
    /\ chainID' = 0
    /\ totp' = 0
    /\ typedData' = NoTypedData
    /\ signature' = NoSignature
    /\ request' = NoRequest
    /\ response' = NoResponse
    /\ callErr' = NilErr
    /\ delegates' = <<>>
    /\ result' = NilErr
    /\ events' = <<>>
    /\ nowReads' = <<>>
    /\ UNCHANGED clock

InvokeAdd ==
    /\ pc = "idle"
    /\ \E s \in SafeInputs, d \in DelegateInputs, l \in LabelInputs,
          kf \in KeyfileInputs, pw \in PasswordInputs, u \in URLInputs :
           Start([NoFlags EXCEPT !.cmd = "add", !.safe = s, !.delegate = d,
                                 !.label = l, !.keyfile = kf, !.password = pw], u)

InvokeList ==
    /\ pc = "idle"
    /\ \E s \in SafeInputs, d \in DelegateInputs \cup {<<>>},
          g \in {<<>>, AddrOther}, l \in LabelInputs,
          lim \in LimitInputs, off \in OffsetInputs, u \in URLInputs :
           Start([NoFlags EXCEPT !.cmd = "list", !.safe = s, !.delegate = d,
                                 !.delegator = g, !.label = l,
                                 !.limit = lim, !.offset = off], u)

InvokeRemove ==
    /\ pc = "idle"
    /\ \E s \in SafeInputs, d \in DelegateInputs,
          kf \in KeyfileInputs, pw \in PasswordInputs, u \in URLInputs :
           Start([NoFlags EXCEPT !.cmd = "remove", !.safe = s, !.delegate = d,
                                 !.keyfile = kf, !.password = pw], u)

\* PreRunE returned err; cobra runs RunE only when it is nil
PreRunStep(err, next) ==
    /\ result' = err
    /\ pc' = IF err # NilErr THEN "done" ELSE next
    /\ UNCHANGED <<inv, clock, key, keyErr, chainID, safeAPIURL, totp, typedData,
                   signature, request, response, callErr, delegates, events,
                   nowReads>>

AddPreRun ==
    /\ pc = "prerun" /\ inv.cmd = "add"
    /\ PreRunStep(AddPreRunE(inv), "key")

ListPreRun ==
    /\ pc = "prerun" /\ inv.cmd = "list"
    /\ PreRunStep(ListPreRunE(inv), "dial")

RemovePreRun ==
    /\ pc = "prerun" /\ inv.cmd = "remove"
    /\ PreRunStep(RemovePreRunE(inv), "key")

\* key, keyErr := KeyFromFile(keyfile, password); if keyErr != nil { return keyErr }
KeyStep(o, next) ==
    /\ o.fail = "input" => inv.password = ""
    /\ key' = KeyFromFile(inv.keyfile, inv.password, o).key
    /\ keyErr' = KeyFromFile(inv.keyfile, inv.password, o).err
    /\ events' = Append(events, "KeyFromFile")
    /\ pc' = next
    /\ result' = IF next = "done" THEN keyErr' ELSE result
    /\ UNCHANGED <<inv, clock, chainID, safeAPIURL, totp, typedData, signature,
                   request, response, callErr, delegates, nowReads>>

AddKeyFromFile ==
    /\ pc = "key" /\ inv.cmd = "add"
    /\ \E o \in KeystoreOutcomes :
           KeyStep(o, AddAfterKey(KeyFromFile(inv.keyfile, inv.password, o).err))

RemoveKeyFromFile ==
    /\ pc = "key" /\ inv.cmd = "remove"
    /\ \E o \in KeystoreOutcomes :
           KeyStep(o,
                   RemoveAfterKey(KeyFromFile(inv.keyfile, inv.password, o).err))

\* client, err := ethclient.Dial(rpcURL)
DialStep(errText) ==
    /\ events' = Append(events, "Dial")
    /\ \E ok \in BOOLEAN :
        /\ pc' = IF ok THEN "chainid" ELSE "done"
        /\ result' = IF ok THEN result ELSE NewErr(errText)
    /\ UNCHANGED <<inv, clock, key, keyErr, chainID, safeAPIURL, totp, typedData,
                   signature, request, response, callErr, delegates, nowReads>>

AddDial ==
    /\ pc = "dial" /\ inv.cmd = "add"
    /\ DialStep("failed to connect to the Ethereum client: %v")

ListDial ==
    /\ pc = "dial" /\ inv.cmd = "list"
    /\ DialStep("error connecting to RPC: %v")

RemoveDial ==
    /\ pc = "dial" /\ inv.cmd = "remove"
    /\ DialStep("failed to connect to the Ethereum client: %v")

\* chainID, err := client.ChainID(ctx), then the default for safeAPIURL
ChainIDStep(errText, slash, next) ==
    /\ events' = Append(events, "ChainID")
    /\ \/ /\ pc' = "done"
          /\ result' = NewErr(errText)
          /\ UNCHANGED <<chainID, safeAPIURL>>
       \/ \E c \in ChainIDs :
            /\ chainID' = c
            /\ safeAPIURL' = IF safeAPIURL = EmptyURL THEN DefaultURL(c, slash)
                             ELSE safeAPIURL
            /\ pc' = next
            /\ UNCHANGED result
    /\ UNCHANGED <<inv, clock, key, keyErr, totp, typedData, signature, request,
                   response, callErr, delegates, nowReads>>

AddChainID ==
    /\ pc = "chainid" /\ inv.cmd = "add"
    /\ ChainIDStep("failed to get chain ID: %v", TRUE, "now")

ListChainID ==
    /\ pc = "chainid" /\ inv.cmd = "list"
    /\ ChainIDStep("error retrieving chain ID: %v", TRUE, "send")

RemoveChainID ==
    /\ pc = "chainid" /\ inv.cmd = "remove"
    /\ ChainIDStep("failed to get chain ID: %v", FALSE, "now")

\* totp := big.NewInt(time.Now().Unix() / 3600)
NowStep ==
    /\ totp' = clock \div SecondsPerWindow
    /\ nowReads' = Append(nowReads, clock)
    /\ events' = Append(events, "Now")
    /\ pc' = "sign"
    /\ UNCHANGED <<inv, clock, key, keyErr, chainID, safeAPIURL, typedData,
                   signature, request, response, callErr, delegates, result>>

AddDelegateNow ==
    /\ pc = "now" /\ inv.cmd = "add"
    /\ NowStep

RemoveDelegateNow ==
    /\ pc = "now" /\ inv.cmd = "remove"
    /\ NowStep

\* typedData built, hashed and signed; reads: the clock readings so far
SignStep(td, reads) ==
    /\ typedData' = td
    /\ \E v \in {0, 1} :
        signature' = SenderSignature(TypedDataAndHash(td), key.PrivateKey, v)
    /\ nowReads' = reads
    /\ events' = events \o <<"TypedDataAndHash", "Sign">>
    /\ pc' = "send"
    /\ UNCHANGED <<inv, clock, key, keyErr, chainID, safeAPIURL, totp, request,
                   response, callErr, delegates, result>>

\* AddDelegate that takes the window from the clock again when it builds
\* the message
AddDelegateSignReadsClockAgain ==
    /\ pc = "sign" /\ inv.cmd = "add"
    /\ SignStep(AddDelegateTypedData(inv.safe, inv.delegate, inv.label, chainID,
                                     key, clock \div SecondsPerWindow),
                Append(nowReads, clock))

AddDelegateSign ==
    /\ pc = "sign" /\ inv.cmd = "add"
    /\ SignStep(AddDelegateTypedData(inv.safe, inv.delegate, inv.label, chainID,
                                     key, totp),
                nowReads)

\* RunE of remove hands RemoveDelegate the checksum forms
RemoveDelegateSign ==
    /\ pc = "sign" /\ inv.cmd = "remove"
    /\ SignStep(RemoveDelegateTypedData(Hex(HexToAddress(inv.safe)),
                                        Hex(HexToAddress(inv.delegate)), chainID,
                                        key, totp),
                nowReads)

\* the request handed to the transport
SendStep(req) ==
    /\ request' = req
    /\ events' = Append(events, "HTTP")
    /\ pc' = "await"
    /\ UNCHANGED <<inv, clock, key, keyErr, chainID, safeAPIURL, totp, typedData,
                   signature, response, callErr, delegates, result, nowReads>>

AddDelegateSend ==
    /\ pc = "send" /\ inv.cmd = "add"
    /\ SendStep([method |-> "POST", url |-> safeAPIURL,
                 body |-> AddDelegatePayload(inv.safe, inv.delegate, inv.label, key,
                                             signature)])

GetDelegatesSend ==
    /\ pc = "send" /\ inv.cmd = "list"
    /\ SendStep([method |-> "GET", url |-> safeAPIURL,
                 query |-> ValuesEncode(
                     GetDelegatesParams(inv.safe, inv.delegate, inv.delegator,
                                        inv.label, inv.limit, inv.offset))])

RemoveDelegateSend ==
    /\ pc = "send" /\ inv.cmd = "remove"
    /\ SendStep([method |-> "DELETE", url |-> safeAPIURL,
                 body |-> RemoveDelegatePayload(Hex(HexToAddress(inv.safe)),
                                                Hex(HexToAddress(inv.delegate)),
                                                key, signature)])

\* the transport returned r; the function and then RunE return
RespondStep(r, err, ds, res, next) ==
    /\ response' = r
    /\ callErr' = err
    /\ delegates' = ds
    /\ result' = res
    /\ pc' = next
    /\ UNCHANGED <<inv, clock, key, keyErr, chainID, safeAPIURL, totp, typedData,
                   signature, request, events, nowReads>>

\* AddDelegate that sends the request again when the transport fails
AddDelegateRespondRetries ==
    /\ pc = "await" /\ inv.cmd = "add"
    /\ \E r \in Responses :
           RespondStep(r, AddDelegateResult(r), <<>>,
                       AddRunEResult(AddDelegateResult(r)),
                       IF r.transportErr THEN "send" ELSE "done")

AddDelegateRespond ==
    /\ pc = "await" /\ inv.cmd = "add"
    /\ \E r \in Responses :
           RespondStep(r, AddDelegateResult(r), <<>>,
                       AddRunEResult(AddDelegateResult(r)), "done")

GetDelegatesRespond ==
    /\ pc = "await" /\ inv.cmd = "list"
    /\ \E r \in Responses :
           RespondStep(r, GetDelegatesResult(r).err,
                       GetDelegatesResult(r).delegates,
                       ListRunEResult(GetDelegatesResult(r).delegates,
                                      GetDelegatesResult(r).err),
                       "done")

RemoveDelegateRespond ==
    /\ pc = "await" /\ inv.cmd = "remove"
    /\ \E r \in Responses :
           RespondStep(r, RemoveDelegateResult(r), <<>>,
                       RemoveRunEResult(RemoveDelegateResult(r)), "done")

\* a second of wall-clock time passes
Tick ==
    /\ clock < StartClock + MaxTicks
    /\ clock' = clock + 1
    /\ UNCHANGED <<pc, inv, key, keyErr, chainID, safeAPIURL, totp, typedData,
                   signature, request, response, callErr, delegates, result,
                   events, nowReads>>

Next ==
    \/ InvokeAdd \/ InvokeList \/ InvokeRemove
    \/ AddPreRun \/ ListPreRun \/ RemovePreRun
    \/ AddKeyFromFile \/ RemoveKeyFromFile
    \/ AddDial \/ ListDial \/ RemoveDial
    \/ AddChainID \/ ListChainID \/ RemoveChainID
    \/ AddDelegateNow \/ RemoveDelegateNow
    \/ AddDelegateSign \/ RemoveDelegateSign
    \/ AddDelegateSend \/ GetDelegatesSend \/ RemoveDelegateSend
    \/ AddDelegateRespond \/ GetDelegatesRespond \/ RemoveDelegateRespond
    \/ Tick

Spec == Init /\ [][Next]_vars

---------------------------------------------------------------------------
(* Properties *)

NetworkOrSigningEvents == {"Dial", "ChainID", "Now", "TypedDataAndHash", "Sign", "HTTP"}

\* the invocation has had its HTTP response (or transport failure)
Responded == pc = "done" /\ request.method # ""

\* C1: in add and remove, when KeyFromFile fails the command has returned
\* that very error, and the invocation holds no RPC dial, no chain-id lookup,
\* no hashing or signing and no HTTP request, in any state from then on.
C1_KeyFailureEndsInvocation ==
    (inv.cmd \in {"add", "remove"} /\ keyErr # NilErr) =>
        /\ pc = "done"
        /\ result = keyErr
        /\ \A i \in DOMAIN events : events[i] \notin NetworkOrSigningEvents
        /\ request.method = ""
        /\ typedData.PrimaryType = ""
        /\ signature.v = 0

C1_Witness ==
    /\ inv.cmd = "remove"
    /\ pc = "done"
    /\ keyErr = NewErr("could not decrypt key with given password")
    /\ result = keyErr
    /\ events = <<"KeyFromFile">>

\* the value of query parameter k of the request, <<>> when it is absent
QueryHas(k) == \E i \in DOMAIN request.query : request.query[i].key = k

QueryValue(k) ==
    IF QueryHas(k)
    THEN request.query[CHOOSE i \in DOMAIN request.query : request.query[i].key = k].value
    ELSE <<>>

\* checksum-case form of an address given in any spelling
Checksum(a) == Hex(HexToAddress(a))

\* C2: whenever a request has been handed to the transport, the safe and
\* delegate addresses in it (JSON body for add and remove, query parameters
\* for list) and the delegate address in the signed message are the
\* checksum-case forms of the addresses given, whatever their spelling.
C2_AddressesSentInChecksumForm ==
    (pc \in {"await", "done"} /\ request.method # "") =>
        /\ inv.cmd = "add" =>
            /\ request.body.safe = Checksum(inv.safe)
            /\ request.body.delegate = Checksum(inv.delegate)
            /\ typedData.Message.delegateAddress.s = Checksum(inv.delegate)
        /\ inv.cmd = "remove" =>
            /\ request.body.safe = Checksum(inv.safe)
            /\ typedData.Message.delegateAddress.s = Checksum(inv.delegate)
        /\ inv.cmd = "list" =>
            /\ QueryValue("safe") = Checksum(inv.safe)
            /\ IsHexAddress(inv.delegate) =>
                    QueryValue("delegate") = Checksum(inv.delegate)

\* C3: when the registry answers a list request with status 200 and zero
\* records, the list command does not fail: RunE returns no error.
C3_EmptyPageIsNotAnError ==
    (/\ Responded /\ inv.cmd = "list"
     /\ ~response.transportErr /\ response.status = 200
     /\ response.body = BodyEmptyPage)
        => result = NilErr

\* the status is not one the operation accepts
NonSuccess(cmd, status) ==
    CASE cmd = "add" -> status \notin {200, 201}
      [] cmd = "remove" -> status \notin {200, 204}
      [] OTHER -> status # 200

\* C4: for add, list and remove alike, when the registry answers with a
\* non-success status the operation returns an error that carries the status
\* code and the raw response body.
C4_RejectionCarriesStatusAndBody ==
    (Responded /\ ~response.transportErr /\ NonSuccess(inv.cmd, response.status)) =>
        /\ callErr # NilErr
        /\ callErr.hasCode /\ callErr.code = response.status
        /\ callErr.hasBody /\ callErr.body = response.body

\* C5: once the registry has answered an add request, AddDelegate has
\* returned nil exactly when the status is 200 or 201; for any other status
\* its error holds the status code and the response body as received, and
\* so does the error RunE returns.
C5_AddSucceedsOnlyOn200Or201 ==
    (Responded /\ inv.cmd = "add" /\ ~response.transportErr) =>
        /\ callErr = NilErr <=> response.status \in {200, 201}
        /\ result = NilErr <=> response.status \in {200, 201}
        /\ response.status \notin {200, 201} =>
            /\ callErr.hasCode /\ callErr.code = response.status
            /\ callErr.hasBody /\ callErr.body = response.body
            /\ result.hasCode /\ result.code = response.status
            /\ result.hasBody /\ result.body = response.body

C5_Witness ==
    /\ Responded /\ inv.cmd = "add"
    /\ response = [transportErr |-> FALSE, status |-> 400, body |-> BodyBadSignature]
    /\ callErr.code = 400 /\ callErr.body = BodyBadSignature
    /\ result.chain = <<"error adding delegate: %v",
                        "unexpected status code: %d, body: %s">>

\* C6: once the registry has answered a remove request, RemoveDelegate has
\* returned nil exactly when the status is 200 or 204, and otherwise an
\* error holding the status code and the response body; 201 fails a remove
\* and 204 fails an add.
C6_RemoveSucceedsOnlyOn200Or204 ==
    /\ (Responded /\ inv.cmd = "remove" /\ ~response.transportErr) =>
        /\ callErr = NilErr <=> response.status \in {200, 204}
        /\ result = NilErr <=> response.status \in {200, 204}
        /\ response.status = 201 => callErr # NilErr
        /\ response.status \notin {200, 204} =>
            /\ callErr.hasCode /\ callErr.code = response.status
            /\ callErr.hasBody /\ callErr.body = response.body
    /\ (Responded /\ inv.cmd = "add" /\ ~response.transportErr
            /\ response.status = 204) => callErr # NilErr

C6_Witness ==
    /\ Responded /\ inv.cmd = "remove"
    /\ ~response.transportErr /\ response.status = 201
    /\ callErr.code = 201 /\ callErr.body = response.body
    /\ result.chain = <<"error removing delegate: %v",
                        "unexpected status code: %d, body: %s">>

\* a list request has been handed to the transport
ListRequestSent == inv.cmd = "list" /\ request.method = "GET"

\* the parameters every list request must and must not carry, whatever the
\* integers are
ListStringParams ==
    /\ QueryHas("safe")
    /\ QueryHas("delegate") <=> inv.delegate # <<>>
    /\ QueryHas("delegator") <=> inv.delegator # <<>>
    /\ QueryHas("label") <=> inv.label # <<>>
    /\ \A i \in DOMAIN request.query : request.query[i].value # <<>>
    /\ \A i, j \in DOMAIN request.query :
            request.query[i].key = request.query[j].key => i = j

\* C7 as stated: the query of a list request always has safe, has delegate,
\* delegator and label exactly when the filter is a non-empty string, has
\* limit and offset exactly when the integer is non-zero, and never has an
\* empty-string parameter.
C7_LimitOffsetSentIffNonZero ==
    ListRequestSent =>
        /\ ListStringParams
        /\ QueryHas("limit") <=> inv.limit # 0
        /\ QueryHas("offset") <=> inv.offset # 0

\* C7 (amended): as above, but limit and offset are in the query exactly
\* when the integer is greater than zero, in decimal (limit=5 gives "5",
\* offset=12 gives "12"); zero and negative values are left out.
C7_LimitOffsetSentIffPositive ==
    ListRequestSent =>
        /\ ListStringParams
        /\ QueryHas("limit") <=> inv.limit > 0
        /\ QueryHas("offset") <=> inv.offset > 0
        /\ inv.limit = 5 => QueryValue("limit") = <<"5">>
        /\ inv.offset = 12 => QueryValue("offset") = <<"1", "2">>

C7_Witness ==
    /\ ListRequestSent
    /\ inv.limit = 5 /\ inv.offset = -1
    /\ inv.delegate = <<>> /\ inv.label # <<>>
    /\ QueryValue("limit") = <<"5">>
    /\ ~QueryHas("offset") /\ ~QueryHas("delegate") /\ QueryHas("label")

\* the typed data of the running add or remove call has been built
MessageBuilt == inv.cmd \in {"add", "remove"} /\ typedData.PrimaryType # ""

\* C8: an add or remove call reads the clock at most once, before anything
\* is built; the window in the signed message, and in the digest that was
\* signed, is floor(that reading / 3600), and stays so through sending and
\* the response, however far the clock has moved on since.
C8_WindowFromOneClockReading ==
    /\ Len(nowReads) <= 1
    /\ inv.cmd = "list" => nowReads = <<>>
    /\ Len(SelectSeq(events, LAMBDA e : e = "Now")) = Len(nowReads)
    /\ \A i, j \in DOMAIN events :
            (events[i] = "Now" /\ events[j] \in {"TypedDataAndHash", "Sign", "HTTP"})
                => i < j
    /\ Len(nowReads) = 1 => totp = nowReads[1] \div SecondsPerWindow
    /\ MessageBuilt =>
            /\ Len(nowReads) = 1
            /\ ParseBig256(typedData.Message.totp.s) = nowReads[1] \div SecondsPerWindow
            /\ signature.rs.hash.messageHash.enc[2].int = nowReads[1] \div SecondsPerWindow

\* a request is out whose signed window is no longer the clock's window
C8_Witness ==
    /\ MessageBuilt /\ pc = "await"
    /\ request.body.signature = signature
    /\ ParseBig256(typedData.Message.totp.s) = StartWindow - 1
    /\ clock \div SecondsPerWindow = StartWindow

HTTPCount == Len(SelectSeq(events, LAMBDA e : e = "HTTP"))

\* the transport has returned, with a failure or with an answer
ResponseReceived == response # NoResponse

\* C9: an invocation of add, list or remove hands at most one request to
\* the transport.  Once the transport has returned, the invocation is over
\* with exactly one request made; after a transport failure or a status
\* the operation does not accept, it is over with an error.  A list call
\* that got a page returns that page's results in the order received, also
\* when the page names a next page.
C9_AtMostOneExchange ==
    /\ HTTPCount <= 1
    /\ (request.method # "") <=> (HTTPCount = 1)
    /\ ResponseReceived =>
        /\ pc = "done" /\ HTTPCount = 1
        /\ (response.transportErr \/ NonSuccess(inv.cmd, response.status)) =>
                callErr # NilErr /\ result # NilErr
    /\ (ResponseReceived /\ inv.cmd = "list" /\ callErr = NilErr) =>
            delegates = Unmarshal(response.body).value.Results

C9_Witness ==
    /\ inv.cmd = "list" /\ pc = "done"
    /\ response = [transportErr |-> FALSE, status |-> 200, body |-> BodyOnePage]
    /\ Unmarshal(response.body).value.Next # ""
    /\ delegates = <<D1>>
    /\ HTTPCount = 1

\* the safe addresses and labels a call can be given
ValidSafes == {a \in SafeInputs : IsHexAddress(a)}

\* the envelope the registry expects for delegate d, window t, chain c
DelegateEnvelope(d, t, c) ==
    [Types |->
        [EIP712Domain |-> <<[Name |-> "name", Type |-> "string"],
                            [Name |-> "version", Type |-> "string"],
                            [Name |-> "chainId", Type |-> "uint256"]>>,
         Delegate |-> <<[Name |-> "delegateAddress", Type |-> "address"],
                        [Name |-> "totp", Type |-> "uint256"]>>],
     PrimaryType |-> "Delegate",
     Domain |-> [Name |-> "Safe Transaction Service", Version |-> "1.0",
                 ChainId |-> c],
     Message |-> [delegateAddress |-> Str(d), totp |-> Str(FormatInt(t))]]

\* C10: the typed data a remove call has built, and the digest it has
\* signed, are those an add call builds and signs for the same delegate,
\* window, chain id and key, whatever safe address and label the add call
\* is given (and the other way round); both are the envelope with domain
\* "Safe Transaction Service" / "1.0" / chainId and primary type Delegate
\* with fields delegateAddress, totp in that order.
C10_RemoveSignsWhatAddSigns ==
    MessageBuilt =>
        /\ typedData = DelegateEnvelope(Checksum(inv.delegate), totp, chainID)
        /\ signature.rs.key = key.PrivateKey
        /\ signature.rs.hash = TypedDataAndHash(typedData)
        /\ \A s \in ValidSafes, l \in LabelInputs :
            /\ typedData = AddDelegateTypedData(s, inv.delegate, l, chainID, key, totp)
            /\ typedData = RemoveDelegateTypedData(s, inv.delegate, chainID, key, totp)
            /\ signature.rs.hash =
                 TypedDataAndHash(AddDelegateTypedData(s, inv.delegate, l, chainID,
                                                       key, totp))
            /\ signature.rs.hash =
                 TypedDataAndHash(RemoveDelegateTypedData(s, inv.delegate, chainID,
                                                          key, totp))

C10_Witness ==
    /\ MessageBuilt /\ inv.cmd = "remove" /\ pc = "await"
    /\ HexToAddress(inv.safe) # HexToAddress(inv.delegate)
    /\ inv.delegate # Checksum(inv.delegate)
    /\ signature.rs.hash.messageHash.enc[1].bytes = HexToAddress(inv.delegate)

\* the address arguments the command validates are valid hex addresses:
\* safe and delegate in add and remove, safe in list
AddressArgumentsValid ==
    /\ IsHexAddress(inv.safe)
    /\ inv.cmd \in {"add", "remove"} => IsHexAddress(inv.delegate)

\* the error PreRunE gives for the first invalid address argument
InvalidAddressError ==
    IF ~IsHexAddress(inv.safe) THEN NewErr("invalid safe address: %s")
    ELSE NewErr("invalid delegate address: %s")

====
